---- MODULE Spec2Model ----
(***************************************************************************)
(* A model of the circuit breaker of src/src/circuit.ts together with the  *)
(* rolling statistics window it constructs (Status, the variant with no    *)
(* constructor arguments and the open()/close() bucket flags, which is the *)
(* one circuit.ts calls).                                                  *)
(*                                                                         *)
(* Everything runs on one JavaScript thread: every action below is one     *)
(* run-to-completion callback (a call of fire/call, a promise reaction of  *)
(* the guarded operation, a timer callback, a call of the public open() or *)
(* close()).  Timers and operation completions are scheduled by the        *)
(* environment, so the model lets them happen in any order.                *)
(***************************************************************************)
EXTENDS Integers, Sequences, FiniteSets

VARIABLES
    options,   \* this.options after the constructor populated it
    cb,        \* the breaker: STATE, PENDING_CLOSE, the Status window, RESET_TIMEOUT
    calls,     \* per call in flight: the closure of call() and its promise
    env,       \* the breaker's user: how it may use it, what it has done so far
    obs        \* observer of the run (history only, never read by the program)

vars == <<options, cb, calls, env, obs>>

(*************************** bounds of the model ***************************)
MaxCalls == 4          \* calls of fire() in one run
MaxInFlight == 2       \* calls whose operation has not completed yet
MaxThreshold == 3      \* largest options.maxFailures that is tried
MaxManual == 1         \* calls of the public open() and close() in one run
\* The length of the window.  Status sets this[BUCKETS] = 10 (3 in its other
\* variant); the model runs a shorter window of the same shape.
BUCKETS == 2

(**************************** program constants ****************************)
DefaultTimeout == 10000        \* options.timeout || 10000
DefaultResetTimeout == 30000   \* options.resetTimeout || 30000
DefaultMaxFailures == 10       \* maxFailures when not an integer

CLOSED == "closed"
OPEN == "open"
HALF_OPEN == "half-open"

EOPENBREAKER == "EOPENBREAKER"
ETIMEDOUT == "ETIMEDOUT"

\* What the guarded operation can produce (mockPromise of the tests).
OpValues == {"RESOLVE", "VALUE"}
OpErrors == {"REJECT"}

CallIds == 1..MaxInFlight

(******************************* Status ************************************)
\* Status.bucket: a fresh bucket.
bucket ==
    [failures |-> 0, successes |-> 0, rejects |-> 0, fires |-> 0,
     timeouts |-> 0, isCircuitBreakerOpen |-> FALSE]

\* Status constructor: the window primed with BUCKETS fresh buckets.
NewWindow == [i \in 1..BUCKETS |-> bucket]

RECURSIVE SumField(_, _, _)
SumField(w, f, n) == IF n = 0 THEN 0 ELSE SumField(w, f, n - 1) + w[n][f]

RECURSIVE CountOpen(_, _)
CountOpen(w, n) ==
    IF n = 0 THEN 0
    ELSE CountOpen(w, n - 1) + (IF w[n].isCircuitBreakerOpen THEN 1 ELSE 0)

\* Status.stats: the reduce over the window.  The counters add up; the
\* boolean flag is added with += as well, so the total is the number of
\* buckets whose flag is set.
stats(w) ==
    [failures |-> SumField(w, "failures", Len(w)),
     successes |-> SumField(w, "successes", Len(w)),
     rejects |-> SumField(w, "rejects", Len(w)),
     fires |-> SumField(w, "fires", Len(w)),
     timeouts |-> SumField(w, "timeouts", Len(w)),
     isCircuitBreakerOpen |-> CountOpen(w, Len(w))]

\* increment writing to the other end of the window.
increment_Oldest(w, property) == [w EXCEPT ![Len(w)][property] = @ + 1]

\* Status.increment: this[WINDOW][0][property]++
increment(w, property) == [w EXCEPT ![1][property] = @ + 1]

\* Status.open / Status.close: flag the head bucket.
statusOpen(w) == [w EXCEPT ![1].isCircuitBreakerOpen = TRUE]
statusClose(w) == [w EXCEPT ![1].isCircuitBreakerOpen = FALSE]

\* nextBucket with shift() for pop(): the head is dropped, not the oldest.
nextBucket_KeepTail(w) == <<bucket>> \o SubSeq(w, 2, Len(w))

\* Status.nextBucket: pop the last bucket, unshift a fresh one.
nextBucket(w) == <<bucket>> \o SubSeq(w, 1, Len(w) - 1)

(***************************** CircuitBreaker ******************************)
\* An emitted notification; arg is the halfOpen payload (0 for the others,
\* whose payloads are the error and the arguments of the call).
Event(name, arg) == [name |-> name, arg |-> arg]

emit(b, name, arg) == [b EXCEPT !.emitted = Append(@, Event(name, arg))]

\* startResetTimer: arm a cool-down timer and keep its handle in
\* this[RESET_TIMEOUT].  A timer armed earlier and still pending stays
\* pending, with no handle left to clear it.
startResetTimer(b) == [b EXCEPT !.resetTimers = @ + 1, !.resetHandle = TRUE]

\* The open listener without the call of startResetTimer.
onOpen_NoTimer(b) == [b EXCEPT !.window = statusOpen(@)]

\* The success listener without the half-open check.
onSuccess_NoClose(b) == [b EXCEPT !.window = increment(@, "successes")]

\* The reject listener counting the rejection as a failure too.
onReject_CountsFailure(b) ==
    [b EXCEPT !.window = increment(increment(@, "rejects"), "failures")]

\* The listeners the constructor registers.
onSuccessCount(b) == [b EXCEPT !.window = increment(@, "successes")]
onFailure(b) == [b EXCEPT !.window = increment(@, "failures")]
onTimeout(b) == [b EXCEPT !.window = increment(@, "timeouts")]
onFire(b) == [b EXCEPT !.window = increment(@, "fires")]
onReject(b) == [b EXCEPT !.window = increment(@, "rejects")]
onOpen(b) == startResetTimer([b EXCEPT !.window = statusOpen(@)])
onClose(b) == [b EXCEPT !.window = statusClose(@)]

\* The getters closed, opened, halfOpen.
closed(b) == b.state = CLOSED
opened(b) == b.state = OPEN
halfOpen(b) == b.state = HALF_OPEN

\* close() writing HALF_OPEN where it should write CLOSED.
close_ToHalfOpen(b) ==
    IF b.state # CLOSED
    THEN LET cleared == IF b.resetHandle
                        THEN [b EXCEPT !.resetTimers = @ - 1, !.resetHandle = FALSE]
                        ELSE b
             set == [cleared EXCEPT !.state = HALF_OPEN, !.pendingClose = FALSE]
         IN  onClose(emit(set, "close", 0))
    ELSE b

\* close() without the clearTimeout of the cool-down timer.
close_KeepsTimer(b) ==
    IF b.state # CLOSED
    THEN onClose(emit([b EXCEPT !.state = CLOSED, !.pendingClose = FALSE,
                                !.resetHandle = FALSE],
                      "close", 0))
    ELSE b

\* close()
close(b) ==
    IF b.state # CLOSED
    THEN LET cleared == IF b.resetHandle
                        THEN [b EXCEPT !.resetTimers = @ - 1, !.resetHandle = FALSE]
                        ELSE b
             set == [cleared EXCEPT !.state = CLOSED, !.pendingClose = FALSE]
         IN  onClose(emit(set, "close", 0))
    ELSE b

\* open() without the test of the state.
open_Unguarded(b) ==
    onOpen(emit([b EXCEPT !.state = OPEN, !.pendingClose = FALSE], "open", 0))

\* open()
open(b) ==
    IF b.state # OPEN
    THEN onOpen(emit([b EXCEPT !.state = OPEN, !.pendingClose = FALSE], "open", 0))
    ELSE b

\* The success listener closing whenever the breaker is not closed.
onSuccess_ClosesUnlessClosed(b) ==
    LET counted == onSuccessCount(b)
    IN  IF counted.state # CLOSED THEN close(counted) ELSE counted

\* The "success" listener: count it, and close a half-open breaker.
onSuccess(b) ==
    LET counted == onSuccessCount(b)
    IN  IF counted.state = HALF_OPEN THEN close(counted) ELSE counted

\* fail() with the threshold compared by > instead of >=.
fail_StrictThreshold(b) ==
    LET failed == onFailure(emit(b, "failure", 0))
    IN  IF stats(failed.window).failures > options.maxFailures
           \/ failed.state = HALF_OPEN
        THEN open(failed)
        ELSE failed

\* fail() with the threshold one too low.
fail_EarlyThreshold(b) ==
    LET failed == onFailure(emit(b, "failure", 0))
    IN  IF stats(failed.window).failures >= options.maxFailures - 1
           \/ failed.state = HALF_OPEN
        THEN open(failed)
        ELSE failed

\* fail() without the half-open test.
fail_ThresholdOnly(b) ==
    LET failed == onFailure(emit(b, "failure", 0))
    IN  IF stats(failed.window).failures >= options.maxFailures
        THEN open(failed)
        ELSE failed

\* fail() reading the stats before it emits failure.
fail_CheckBeforeCount(b) ==
    LET failed == onFailure(emit(b, "failure", 0))
    IN  IF stats(b.window).failures >= options.maxFailures
           \/ b.state = HALF_OPEN
        THEN open(failed)
        ELSE failed

\* fail(): emit failure, then open on the threshold or when half-open.
fail(b) ==
    LET failed == onFailure(emit(b, "failure", 0))
    IN  IF stats(failed.window).failures >= options.maxFailures
           \/ failed.state = HALF_OPEN
        THEN open(failed)
        ELSE failed

\* The test of call() with the half-open flag read the wrong way round.
rejects_HalfOpenInverted(b) == b.state # CLOSED /\ b.state = HALF_OPEN

\* The test of call() reading PENDING_CLOSE as a single-probe gate:
\* !this.closed && !this[PENDING_CLOSE].
rejects_PendingCloseGate(b) == b.state # CLOSED /\ ~b.pendingClose

\* call(): the test that rejects the call, !this.closed && !this.halfOpen.
rejects(b) == b.state # CLOSED /\ b.state # HALF_OPEN

\* The timeout callback without handleError's this.fail.
timeoutCallback_NoFail(b) == onTimeout(emit(b, "timeout", 0))

\* The timeout callback with a rotation between its two increments.
timeoutCallback_RotatesBetween(b) ==
    fail([onTimeout(emit(b, "timeout", 0)) EXCEPT !.window = nextBucket(@)])

\* The callback of a call's timeout timer, on the breaker: emit timeout,
\* then handleError's this.fail.
timeoutCallback(b) == fail(onTimeout(emit(b, "timeout", 0)))

\* The cool-down timer's callback without its emit.
resetTimerCallback_Silent(b) ==
    [b EXCEPT !.state = HALF_OPEN, !.pendingClose = TRUE]

\* The cool-down timer's callback.
resetTimerCallback(b) ==
    emit([b EXCEPT !.state = HALF_OPEN, !.pendingClose = TRUE],
         "halfOpen", options.resetTimeout)


(******************************** observer *********************************)
\* The run so far, as the scenarios of the specification read it.
\*   stage/k: "failing" while every outcome since construction is a failed
\*   call (k of them); "opened" once such a failure opened the breaker;
\*   "half" once the cool-down timer then fired; "recovered" once a success
\*   then closed it (k counts the failed calls since); "off" otherwise.
\*   row/base: row failed outcomes in a row, the first handled while Closed
\*   with base failures already in the window.
\*   last: the kind of the last callback; before: the breaker as that
\*   callback found it (state, window, stats, pending cool-down timers).
\*   quiet: the rotations since a callback last wrote to the window.
\* The observer counts up to ObsCap: "more than any threshold tried".
ObsCap == MaxThreshold + 1
Capped(n) == IF n > ObsCap THEN ObsCap ELSE n

Snapshot(b) ==
    [state |-> b.state, window |-> b.window, stats |-> stats(b.window),
     resetTimers |-> b.resetTimers, resetHandle |-> b.resetHandle]

ObsInit(b) ==
    [stage |-> "failing", k |-> 0, row |-> 0, base |-> 0, quiet |-> 0,
     last |-> "none", before |-> Snapshot(b)]

Observe(o, kind, b, nb) ==
    LET stage ==
            CASE kind \in {"admit", "rotate", "late", "dispose"} -> o.stage
              [] kind = "failure" /\ o.stage = "failing" ->
                    IF nb.state = OPEN THEN "opened" ELSE "failing"
              [] kind = "failure" /\ o.stage = "recovered" -> "recovered"
              [] kind = "reject" /\ o.stage = "opened" -> "opened"
              [] kind = "cooldown" /\ o.stage = "opened" -> "half"
              [] kind = "success" /\ o.stage = "half" ->
                    IF nb.state = CLOSED THEN "recovered" ELSE "off"
              [] OTHER -> "off"
        k ==
            CASE stage = "off" -> 0
              [] kind = "failure" -> Capped(o.k + 1)
              [] kind = "success" -> 0
              [] OTHER -> o.k
        starts == kind = "failure" /\ o.row = 0 /\ b.state = CLOSED
        row ==
            CASE kind \in {"admit", "rotate", "late", "dispose"} -> o.row
              [] starts -> 1
              [] kind = "failure" /\ o.row > 0 -> Capped(o.row + 1)
              [] OTHER -> 0
        base ==
            CASE row = 0 -> 0
              [] starts -> stats(b.window).failures
              [] OTHER -> o.base
        quiet ==
            CASE kind = "rotate" -> IF o.quiet < BUCKETS THEN o.quiet + 1 ELSE o.quiet
              [] nb.window = b.window -> o.quiet
              [] OTHER -> 0
    IN  [stage |-> stage, k |-> k, row |-> row, base |-> base, quiet |-> quiet,
         last |-> kind, before |-> Snapshot(b)]

(********************************* calls ***********************************)
\* The closure of one call(): the returned promise (pc, result), whether
\* the action was applied, the operation's own promise (op, produced), the
\* call's timeout timer and its timeoutError flag.  arrival (the state the
\* call found), applied (how often this.action.apply ran for it) and handled
\* (the terminal outcomes handled for it) are history.
NoCall ==
    [pc |-> "idle", result |-> "none", invoked |-> FALSE, op |-> "none",
     produced |-> "none", timer |-> FALSE, timeoutError |-> FALSE,
     arrival |-> "none", applied |-> 0, handled |-> <<>>]

\* resolve(result) / reject(error) of the returned promise: a promise
\* settles once.
resolve(c, value) ==
    IF c.pc = "pending" THEN [c EXCEPT !.pc = "resolved", !.result = value] ELSE c
reject(c, error) ==
    IF c.pc = "pending" THEN [c EXCEPT !.pc = "rejected", !.result = error] ELSE c

\* The then and catch callbacks test !timeoutError: the timeout has decided.
decided_Never(c) == FALSE

decided(c) == c.timeoutError

\* clearTimeout(timeout)
clearTimeout(c) == [c EXCEPT !.timer = FALSE]

\* handleError rejecting with the breaker's own error.
handleError_BreakerError(c, error) == reject(clearTimeout(c), EOPENBREAKER)

\* handleError on the closure: clearTimeout(timeout); ...; reject(error).
\* (this.fail, in between, acts on the breaker: see fail.)
handleError(c, error) == reject(clearTimeout(c), error)

\* The constructor: populate the options.  A timeout option is written
\* [off |-> TRUE] for `false` and [off |-> FALSE, ms |-> n] for a number
\* (0: none given); the populated one is [on, ms], on being its truthiness.
Populate(timeout, resetTimeout, maxFailures) ==
    [timeout |-> IF timeout.off THEN [on |-> FALSE, ms |-> 0]
                 ELSE [on |-> TRUE,
                       ms |-> IF timeout.ms = 0 THEN DefaultTimeout ELSE timeout.ms],
     resetTimeout |-> IF resetTimeout = 0 THEN DefaultResetTimeout ELSE resetTimeout,
     maxFailures |-> IF maxFailures \in Int THEN maxFailures ELSE DefaultMaxFailures]

TimeoutInputs == {[off |-> TRUE, ms |-> 0], [off |-> FALSE, ms |-> 100]}
ResetTimeoutInputs == {3000}
MaxFailuresInputs == 1..MaxThreshold

\* The breaker the constructor leaves: CLOSED, a fresh Status whose
\* constructor has started the rotation interval, no cool-down timer.
Constructed ==
    [state |-> CLOSED, pendingClose |-> FALSE, window |-> NewWindow,
     bucketInterval |-> TRUE,
     resetTimers |-> 0, resetHandle |-> FALSE, emitted |-> <<>>]

\* The users tried: one that overlaps its calls and leaves open() and
\* close() alone, one that awaits each call, makes one call more, and calls
\* open() or close(), and one that makes a few calls one after the other and
\* may let go of the breaker at any moment (disposed), after which it makes
\* no call of any kind.
Users ==
    {[inflight |-> MaxInFlight, fires |-> MaxCalls - 1, manuals |-> 0,
      disposes |-> FALSE, fired |-> 0, manual |-> 0, disposed |-> FALSE],
     [inflight |-> 1, fires |-> MaxCalls, manuals |-> MaxManual,
      disposes |-> FALSE, fired |-> 0, manual |-> 0, disposed |-> FALSE],
     [inflight |-> 1, fires |-> MaxCalls - 2, manuals |-> 0,
      disposes |-> TRUE, fired |-> 0, manual |-> 0, disposed |-> FALSE]}

Init ==
    /\ \E t \in TimeoutInputs, r \in ResetTimeoutInputs, m \in MaxFailuresInputs :
          options = Populate(t, r, m)
    /\ cb = Constructed
    /\ calls = [i \in CallIds |-> NoCall]
    /\ env \in Users
    /\ obs = ObsInit(Constructed)

\* The breaker at the start of a callback: nothing emitted yet.
Start == [cb EXCEPT !.emitted = <<>>]

\* A closure is over once its promise has settled, the operation has
\* completed and no timer refers to it; its slot then serves the next call.
Over(c) == c.pc # "pending" /\ c.op # "running" /\ ~c.timer

\* The closures alive at the start of a callback: one that was over has been
\* dropped by its caller.
Alive == [j \in CallIds |-> IF Over(calls[j]) THEN NoCall ELSE calls[j]]

\* The next call of fire() takes the first free slot, while the user may
\* make one more call with that many already in flight.
InFlight == Cardinality({j \in CallIds : ~Over(calls[j])})

IsNext(i) ==
    /\ Over(calls[i])
    /\ \A j \in 1..(i - 1) : ~Over(calls[j])
    /\ ~env.disposed
    /\ env.fired < env.fires
    /\ InFlight < env.inflight

Fired == [env EXCEPT !.fired = @ + 1]

\* call() never arming the timeout.
armsTimeout_Never == FALSE

\* call() arming the timeout whatever options.timeout is.
armsTimeout_Always == TRUE

\* call(): `if (this.options.timeout)`, the test that arms the call's timeout.
armsTimeout == options.timeout.on

\* call(), the breaker open: fire, reject, Promise.reject(EOPENBREAKER).
CallRejected(i) ==
    /\ IsNext(i)
    /\ rejects(cb)
    /\ LET nb == onReject(emit(onFire(emit(Start, "fire", 0)), "reject", 0))
       IN  /\ cb' = nb
           /\ obs' = Observe(obs, "reject", cb, nb)
    /\ calls' = [Alive EXCEPT ![i] =
                    [NoCall EXCEPT !.pc = "rejected", !.result = EOPENBREAKER,
                              !.arrival = cb.state]]
    /\ env' = Fired
    /\ UNCHANGED options

\* call(), the breaker closed or half-open, the action returning a promise:
\* fire, PENDING_CLOSE cleared, the timeout armed unless disabled, the
\* action applied.
CallAdmitted(i) ==
    /\ IsNext(i)
    /\ ~rejects(cb)
    /\ LET nb == [onFire(emit(Start, "fire", 0)) EXCEPT !.pendingClose = FALSE]
       IN  /\ cb' = nb
           /\ obs' = Observe(obs, "admit", cb, nb)
    /\ calls' = [Alive EXCEPT ![i] =
                    [NoCall EXCEPT !.pc = "pending", !.invoked = TRUE, !.op = "running",
                              !.applied = @ + 1,
                              !.timer = armsTimeout,
                              !.arrival = cb.state]]
    /\ env' = Fired
    /\ UNCHANGED options

\* call(), the breaker closed or half-open, the action throwing at once:
\* the catch block runs handleError before call() returns.
CallThrows(i, error) ==
    /\ IsNext(i)
    /\ ~rejects(cb)
    /\ LET fired == [onFire(emit(Start, "fire", 0)) EXCEPT !.pendingClose = FALSE]
           nb == fail(fired)
       IN  /\ cb' = nb
           /\ obs' = Observe(obs, "failure", cb, nb)
    /\ calls' = [Alive EXCEPT ![i] =
                    handleError([NoCall EXCEPT !.pc = "pending", !.invoked = TRUE,
                                          !.op = "done", !.produced = error,
                                          !.applied = @ + 1,
                                          !.timer = armsTimeout,
                                          !.arrival = cb.state,
                                          !.handled = Append(@, "failure")],
                                error)]
    /\ env' = Fired
    /\ UNCHANGED options

\* The operation's promise fulfils: the then callback.
OpResolves(i, value) ==
    /\ calls[i].op = "running"
    /\ IF ~decided(calls[i])
       THEN LET nb == onSuccess(emit(Start, "success", 0))
            IN  /\ cb' = nb
                /\ obs' = Observe(obs, "success", cb, nb)
                /\ calls' = [Alive EXCEPT ![i] =
                                resolve(clearTimeout(
                                    [@ EXCEPT !.op = "done", !.produced = value,
                                              !.handled = Append(@, "success")]),
                                    value)]
       ELSE /\ cb' = Start
            /\ obs' = Observe(obs, "late", cb, Start)
            /\ calls' = [Alive EXCEPT ![i] =
                            [@ EXCEPT !.op = "done", !.produced = value]]
    /\ UNCHANGED <<options, env>>

\* The operation's promise rejects: the catch callback.
OpRejects(i, error) ==
    /\ calls[i].op = "running"
    /\ IF ~decided(calls[i])
       THEN LET nb == fail(Start)
            IN  /\ cb' = nb
                /\ obs' = Observe(obs, "failure", cb, nb)
                /\ calls' = [Alive EXCEPT ![i] =
                                handleError(
                                    [@ EXCEPT !.op = "done", !.produced = error,
                                              !.handled = Append(@, "failure")],
                                    error)]
       ELSE /\ cb' = Start
            /\ obs' = Observe(obs, "late", cb, Start)
            /\ calls' = [Alive EXCEPT ![i] =
                            [@ EXCEPT !.op = "done", !.produced = error]]
    /\ UNCHANGED <<options, env>>

\* The call's timeout timer fires: timeoutError, emit timeout, handleError.
TimeoutFires(i) ==
    /\ calls[i].timer
    /\ LET nb == timeoutCallback(Start)
       IN  /\ cb' = nb
           /\ obs' = Observe(obs, "failure", cb, nb)
    /\ calls' = [Alive EXCEPT ![i] =
                    handleError([@ EXCEPT !.timeoutError = TRUE,
                                          !.handled = Append(@, "timeout")],
                                ETIMEDOUT)]
    /\ UNCHANGED <<options, env>>

\* A pending cool-down timer fires: the one RESET_TIMEOUT refers to, or one
\* armed earlier whose handle was overwritten.
ResetTimerFires ==
    /\ cb.resetTimers > 0
    /\ \E latest \in BOOLEAN :
          /\ latest => cb.resetHandle
          /\ ~latest => cb.resetTimers > (IF cb.resetHandle THEN 1 ELSE 0)
          /\ LET nb == resetTimerCallback(
                          [Start EXCEPT !.resetTimers = @ - 1,
                                        !.resetHandle = IF latest THEN FALSE ELSE @])
             IN  /\ cb' = nb
                 /\ obs' = Observe(obs, "cooldown", cb, nb)
    /\ calls' = Alive
    /\ UNCHANGED <<options, env>>

\* The bucket interval elapses: Status.nextBucket.
Rotate ==
    /\ cb.bucketInterval
    /\ LET nb == [Start EXCEPT !.window = nextBucket(@)]
       IN  /\ cb' = nb
           /\ obs' = Observe(obs, "rotate", cb, nb)
    /\ calls' = Alive
    /\ UNCHANGED <<options, env>>

\* The public close() and open(), called by the breaker's user.
ManualClose ==
    /\ ~env.disposed
    /\ env.manual < env.manuals
    /\ env' = [env EXCEPT !.manual = @ + 1]
    /\ LET nb == close(Start)
       IN  /\ cb' = nb
           /\ obs' = Observe(obs, "close()", cb, nb)
    /\ calls' = Alive
    /\ UNCHANGED options

ManualOpen ==
    /\ ~env.disposed
    /\ env.manual < env.manuals
    /\ env' = [env EXCEPT !.manual = @ + 1]
    /\ LET nb == open(Start)
       IN  /\ cb' = nb
           /\ obs' = Observe(obs, "open()", cb, nb)
    /\ calls' = Alive
    /\ UNCHANGED options

\* The user lets go of the breaker.  The breaker has no method for it
\* and JavaScript runs nothing when a reference is dropped: no code of the
\* breaker runs, its timers stay as they are.
Dispose ==
    /\ env.disposes /\ ~env.disposed
    /\ env' = [env EXCEPT !.disposed = TRUE]
    /\ cb' = Start
    /\ obs' = Observe(obs, "dispose", cb, Start)
    /\ calls' = Alive
    /\ UNCHANGED options

Next ==
    \/ \E i \in CallIds : CallRejected(i)
    \/ \E i \in CallIds : CallAdmitted(i)
    \/ \E i \in CallIds, e \in OpErrors : CallThrows(i, e)
    \/ \E i \in CallIds, v \in OpValues : OpResolves(i, v)
    \/ \E i \in CallIds, e \in OpErrors : OpRejects(i, e)
    \/ \E i \in CallIds : TimeoutFires(i)
    \/ ResetTimerFires
    \/ Rotate
    \/ ManualClose
    \/ ManualOpen
    \/ Dispose

Spec == Init /\ [][Next]_vars

\* The timers are the event loop's: a pending cool-down timer fires.
FairSpec == Spec /\ WF_vars(ResetTimerFires)

\* So are the calls' timeout timers: a pending one fires unless it is
\* cleared.  Nothing makes the guarded operation complete.  Whether a call
\* settles does not depend on the threshold: the runs are those of the
\* lowest one, where the calls meet every state of the breaker soonest.
TimedInit == Init /\ options.maxFailures = 1
TimedSpec ==
    TimedInit /\ [][Next]_vars /\ \A i \in CallIds : WF_vars(TimeoutFires(i))

(***************************************************************************)
(* Shorthands of the properties                                            *)
(***************************************************************************)
Counted == stats(cb.window)
EmittedNames == [n \in 1..Len(cb.emitted) |-> cb.emitted[n].name]
Emitted(name) == \E n \in 1..Len(cb.emitted) : cb.emitted[n].name = name
RejectedOpen(c) ==
    /\ c.pc = "rejected" /\ c.result = EOPENBREAKER
    /\ ~c.invoked /\ c.op = "none" /\ ~c.timer

C2_Original ==
    (obs.row >= 1 /\ obs.row <= options.maxFailures - 1) => cb.state = CLOSED

\* C2, amended: from a Closed state whose window counts f failures, N failed
\* calls in a row with f + N <= maxFailures-1 leave the breaker Closed (from
\* the initial state f is 0).
C2_StaysClosedBelowThreshold ==
    (obs.row >= 1 /\ obs.base + obs.row <= options.maxFailures - 1) =>
        cb.state = CLOSED

\* C2, the case: a failed call has just been handled in a run that started
\* Closed with a failure already counted, the total still below the threshold.
C2_Witness ==
    /\ obs.last = "failure" /\ obs.row >= 1 /\ obs.base >= 1
    /\ obs.base + obs.row <= options.maxFailures - 1
    /\ cb.state = CLOSED

(***************************************************************************)
(* C3                                                                      *)
(***************************************************************************)
\* C3: after the breaker opened on maxFailures failed calls, went half-open
\* on the cool-down timer and closed on one successful call, the next
\* maxFailures-1 failed calls leave it Closed.
C3_RecoveredStaysClosed ==
    (obs.stage = "recovered" /\ obs.k <= options.maxFailures - 1) =>
        cb.state = CLOSED

(***************************************************************************)
(* C4                                                                      *)
(***************************************************************************)
\* C4: a call that arrives while the breaker is Open is rejected at once
\* with EOPENBREAKER and its operation is never invoked; an operation is
\* invoked only for a call that arrived while Closed or HalfOpen.
C4_OpenShortCircuits ==
    \A i \in CallIds :
        /\ calls[i].arrival = OPEN => RejectedOpen(calls[i])
        /\ calls[i].invoked => calls[i].arrival \in {CLOSED, HALF_OPEN}
        /\ calls[i].result = EOPENBREAKER => calls[i].arrival = OPEN

\* C4, the case: a call has just arrived at an Open breaker.
C4_Witness ==
    /\ obs.last = "reject" /\ cb.state = OPEN
    /\ EmittedNames = <<"fire", "reject">>
    /\ \E i \in CallIds : calls[i].arrival = OPEN /\ ~calls[i].invoked

(***************************************************************************)
(* C5                                                                      *)
(***************************************************************************)
\* The cool-down timer has just fired: HalfOpen, one halfOpen notification
\* carrying options.resetTimeout.
HalfOpenNotified ==
    /\ obs.last = "cooldown" /\ cb.state = HALF_OPEN
    /\ cb.emitted = <<Event("halfOpen", options.resetTimeout)>>

\* C5: an Open breaker does not stay Open for ever: unless close() is called
\* first, the cool-down timer fires, the state becomes HalfOpen and halfOpen
\* is emitted with the configured resetTimeout.
C5_CoolDownEnds ==
    (cb.state = OPEN) ~>
        (HalfOpenNotified \/ (obs.last = "close()" /\ cb.state = CLOSED))

\* C5, the case: the timer of a breaker that failed calls opened has fired.
C5_Witness ==
    /\ HalfOpenNotified /\ obs.stage = "half"
    /\ obs.before.state = OPEN /\ options.resetTimeout = 3000

(***************************************************************************)
(* C6                                                                      *)
(***************************************************************************)
\* The closure whose operation's success the last callback handled.
Succeeded(c) == c.op = "done" /\ c.handled = <<"success">>

\* C6: a success handled while the breaker is HalfOpen closes it, emits
\* close, and resolves the call with the value the operation produced.
C6_HalfOpenSuccessCloses ==
    (obs.last = "success" /\ obs.before.state = HALF_OPEN) =>
        /\ cb.state = CLOSED
        /\ EmittedNames = <<"success", "close">>
        /\ \E i \in CallIds :
              /\ Succeeded(calls[i])
              /\ calls[i].pc = "resolved"
              /\ calls[i].result = calls[i].produced
              /\ calls[i].produced \in OpValues
        /\ \A i \in CallIds :
              Succeeded(calls[i]) =>
                  calls[i].pc = "resolved" /\ calls[i].result = calls[i].produced

\* C6, the case: a probe of a half-open breaker has just succeeded.
C6_Witness ==
    /\ obs.last = "success" /\ obs.before.state = HALF_OPEN
    /\ cb.state = CLOSED
    /\ \E i \in CallIds : Succeeded(calls[i]) /\ calls[i].result = "VALUE"

(***************************************************************************)
(* C7                                                                      *)
(***************************************************************************)
\* C7: a failure or a timeout handled while the breaker is HalfOpen opens
\* it in the same callback, whatever the window counts, and arms the
\* cool-down timer again.
C7_HalfOpenFailureReopens ==
    (obs.last = "failure" /\ obs.before.state = HALF_OPEN) =>
        /\ cb.state = OPEN
        /\ Emitted("open")
        /\ cb.resetHandle
        /\ cb.resetTimers = obs.before.resetTimers + 1

\* C7, the case: a half-open probe has just timed out with the window
\* counting fewer failures than the threshold.
C7_Witness ==
    /\ obs.last = "failure" /\ obs.before.state = HALF_OPEN
    /\ EmittedNames = <<"timeout", "failure", "open">>
    /\ Counted.failures < options.maxFailures
    /\ cb.state = OPEN

(***************************************************************************)
(* C8                                                                      *)
(***************************************************************************)
\* C8: for a permitted call the operation's completion and the timeout
\* exclude each other: at most one of success, failure, timeout is ever
\* handled, exactly one once the call has settled, and the timeout can fire
\* only while none has been; the operation settling after the timeout was
\* handled emits nothing and changes neither the counters, the state, the
\* cool-down timer nor the call's result.
C8_OneTerminalEvent ==
    /\ \A i \in CallIds :
          LET c == calls[i] IN
          /\ Len(c.handled) <= 1
          /\ c.timer => c.pc = "pending" /\ c.op = "running" /\ c.handled = <<>>
          /\ c.timeoutError <=> c.handled = <<"timeout">>
          /\ (c.invoked /\ c.pc # "pending") => Len(c.handled) = 1
          /\ c.handled = <<"timeout">> => c.pc = "rejected" /\ c.result = ETIMEDOUT
          /\ c.handled = <<"success">> => c.pc = "resolved" /\ c.result \in OpValues
          /\ c.handled = <<"failure">> => c.pc = "rejected" /\ c.result \in OpErrors
    /\ obs.last = "late" =>
          /\ cb.emitted = <<>>
          /\ Snapshot(cb) = obs.before
          /\ \E i \in CallIds :
                calls[i].op = "done" /\ calls[i].handled = <<"timeout">>

\* C8, the case: the operation of a timed-out call has just resolved.
C8_Witness ==
    /\ obs.last = "late"
    /\ \E i \in CallIds :
          /\ calls[i].timeoutError /\ calls[i].op = "done"
          /\ calls[i].produced \in OpValues
          /\ calls[i].result = ETIMEDOUT

(***************************************************************************)
(* C9                                                                      *)
(***************************************************************************)
\* C9: the timeout firing before the operation completes records one
\* timeout and one failure and nothing else, applies the rule of every
\* failure (open when the window counts maxFailures failures or the breaker
\* is half-open), and rejects the call with ETIMEDOUT.
C9_TimeoutCountsAsFailure ==
    (obs.last = "failure" /\ Emitted("timeout")) =>
        /\ Len(EmittedNames) >= 2
        /\ EmittedNames[1] = "timeout" /\ EmittedNames[2] = "failure"
        /\ Counted.timeouts = obs.before.stats.timeouts + 1
        /\ Counted.failures = obs.before.stats.failures + 1
        /\ Counted.fires = obs.before.stats.fires
        /\ Counted.successes = obs.before.stats.successes
        /\ Counted.rejects = obs.before.stats.rejects
        /\ IF Counted.failures >= options.maxFailures
              \/ obs.before.state = HALF_OPEN
           THEN cb.state = OPEN
           ELSE cb.state = obs.before.state
        /\ \E i \in CallIds :
              /\ calls[i].handled = <<"timeout">> /\ calls[i].op = "running"
              /\ calls[i].pc = "rejected" /\ calls[i].result = ETIMEDOUT
              /\ ~calls[i].timer

\* C9, the case: a timeout has just brought a Closed breaker to its
\* threshold.
C9_Witness ==
    /\ obs.last = "failure" /\ obs.before.state = CLOSED
    /\ EmittedNames = <<"timeout", "failure", "open">>
    /\ Counted.failures = options.maxFailures
    /\ Counted.timeouts >= 1
    /\ cb.state = OPEN

(***************************************************************************)
(* C10                                                                     *)
(***************************************************************************)
\* C10: close() on a Closed breaker and open() on an Open one change
\* nothing: state, counters, bucket flags and cool-down timer stay as they
\* are, no timer is armed, nothing is emitted.
C10_OverridesIdempotent ==
    /\ cb.state = CLOSED => close(cb) = cb
    /\ cb.state = OPEN => open(cb) = cb
    /\ (obs.last = "close()" /\ obs.before.state = CLOSED) =>
          Snapshot(cb) = obs.before /\ cb.emitted = <<>>
    /\ (obs.last = "open()" /\ obs.before.state = OPEN) =>
          Snapshot(cb) = obs.before /\ cb.emitted = <<>>

\* C10, the case: open() has just been called on a breaker that failed
\* calls had opened, its cool-down timer pending.
C10_Witness ==
    /\ obs.last = "open()" /\ obs.before.state = OPEN
    /\ cb.state = OPEN /\ cb.resetTimers = 1 /\ cb.resetHandle
    /\ Counted.failures >= options.maxFailures

(***************************************************************************)
(* C11                                                                     *)
(***************************************************************************)
\* The counters of a bucket, and the counter each notification increments.
Counters == {"failures", "successes", "rejects", "fires", "timeouts"}
CounterOf ==
    [fire |-> "fires", success |-> "successes", failure |-> "failures",
     timeout |-> "timeouts", reject |-> "rejects"]

\* One counter added up over the buckets now in the window.
InWindow(f) ==
    LET sum[n \in 0..Len(cb.window)] ==
            IF n = 0 THEN 0 ELSE sum[n - 1] + cb.window[n][f]
    IN  sum[Len(cb.window)]

\* C11: stats is, counter by counter, the sum over the buckets in the
\* window; a rotation takes out of stats what the oldest bucket counted and
\* nothing else; after BUCKETS rotations with nothing recorded in between
\* every count of stats is 0, so that an event older than the window never
\* counts toward the threshold.
C11_StatsAreTheWindow ==
    /\ \A f \in Counters : Counted[f] = InWindow(f)
    /\ obs.last = "rotate" =>
          \A f \in Counters :
              Counted[f] = obs.before.stats[f] - obs.before.window[BUCKETS][f]
    /\ obs.quiet = BUCKETS =>
          /\ Counted = stats(NewWindow)
          /\ \A f \in Counters : Counted[f] = 0
          /\ Counted.failures < options.maxFailures

\* C11, the case: the last of BUCKETS rotations in a row has just evicted
\* the failures that had opened the breaker.
C11_Witness ==
    /\ obs.last = "rotate" /\ obs.quiet = BUCKETS
    /\ obs.before.stats.failures >= options.maxFailures
    /\ obs.before.window[BUCKETS].failures >= 1
    /\ Counted.failures = 0
    /\ cb.state = OPEN

(***************************************************************************)
(* C12                                                                     *)
(***************************************************************************)
\* C12: with timeout: false no call has a timeout timer: the timeouts
\* counter stays 0, no timeout is emitted, no call fails with ETIMEDOUT, and
\* a permitted call settles only on its operation's own success or failure,
\* with what the operation produced.
C12_NoTimeoutWhenDisabled ==
    ~options.timeout.on =>
        /\ Counted.timeouts = 0
        /\ ~Emitted("timeout")
        /\ \A i \in CallIds :
              LET c == calls[i] IN
              /\ ~c.timer /\ ~c.timeoutError
              /\ c.result # ETIMEDOUT
              /\ c.handled \in {<<>>, <<"success">>, <<"failure">>}
              /\ c.invoked =>
                    /\ c.pc = "pending" <=> c.op = "running"
                    /\ c.pc = "resolved" <=> c.handled = <<"success">>
                    /\ c.pc = "rejected" <=> c.handled = <<"failure">>
                    /\ c.pc # "pending" => c.result = c.produced

\* C12, the case: with the timeout disabled a permitted call is still
\* pending after its fire has left the window.
C12_Witness ==
    /\ ~options.timeout.on
    /\ obs.last = "rotate" /\ Counted.fires = 0
    /\ \E i \in CallIds :
          calls[i].invoked /\ calls[i].pc = "pending" /\ ~calls[i].timer

(***************************************************************************)
(* C13                                                                     *)
(***************************************************************************)
\* C13: a call rejected because the breaker is Open emits fire and reject,
\* adds one to fires and one to rejects and changes nothing else: successes,
\* failures, timeouts and the bucket flags keep their values, the state stays
\* Open, the pending cool-down timer is neither cleared nor armed again.
C13_RejectionOnlyCounts ==
    obs.last = "reject" =>
        /\ obs.before.state = OPEN /\ cb.state = OPEN
        /\ EmittedNames = <<"fire", "reject">>
        /\ Counted.fires = obs.before.stats.fires + 1
        /\ Counted.rejects = obs.before.stats.rejects + 1
        /\ Counted.successes = obs.before.stats.successes
        /\ Counted.failures = obs.before.stats.failures
        /\ Counted.timeouts = obs.before.stats.timeouts
        /\ Counted.isCircuitBreakerOpen = obs.before.stats.isCircuitBreakerOpen
        /\ cb.resetTimers = obs.before.resetTimers
        /\ cb.resetHandle = obs.before.resetHandle
        /\ cb.pendingClose = FALSE

\* C13, the case: a second call in a row has just been rejected by an Open
\* breaker, its cool-down timer still pending.
C13_Witness ==
    /\ obs.last = "reject" /\ cb.state = OPEN
    /\ obs.before.stats.rejects >= 1 /\ Counted.rejects >= 2
    /\ cb.resetTimers = 1 /\ cb.resetHandle
    /\ Counted.failures = options.maxFailures

(***************************************************************************)
(* C14                                                                     *)
(***************************************************************************)
\* C14: a permitted call whose operation fails before the timeout is
\* rejected with the operation's own error, never with EOPENBREAKER, also
\* when that failure opens the breaker; one whose operation succeeds before
\* the timeout resolves with the operation's value; whatever the outcome,
\* the action was applied once for the call and is not applied again.
C14_OutcomePassedThrough ==
    /\ \A i \in CallIds :
          LET c == calls[i] IN
          /\ c.applied <= 1
          /\ c.invoked <=> c.applied = 1
          /\ c.handled # <<>> => c.applied = 1 /\ c.arrival \in {CLOSED, HALF_OPEN}
          /\ c.handled = <<"failure">> =>
                /\ c.pc = "rejected" /\ c.op = "done"
                /\ c.produced \in OpErrors /\ c.result = c.produced
                /\ c.result # EOPENBREAKER
          /\ c.handled = <<"success">> =>
                /\ c.pc = "resolved" /\ c.op = "done"
                /\ c.produced \in OpValues /\ c.result = c.produced
    /\ (obs.last \in {"failure", "success"}) =>
          \E i \in CallIds : Len(calls[i].handled) = 1 /\ calls[i].applied = 1

\* C14, the case: the operation of a call admitted by a Closed breaker has
\* just failed and that failure has opened the breaker.
C14_Witness ==
    /\ obs.last = "failure" /\ ~Emitted("timeout")
    /\ obs.before.state = CLOSED /\ cb.state = OPEN /\ Emitted("open")
    /\ \E i \in CallIds :
          /\ calls[i].handled = <<"failure">> /\ calls[i].arrival = CLOSED
          /\ calls[i].pc = "rejected" /\ calls[i].result = "REJECT"

(***************************************************************************)
(* C15                                                                     *)
(***************************************************************************)
\* C15: the breaker owns one rotation timer and at most one cool-down
\* timer, and once the breaker is disposed neither is pending: no rotation
\* and no cool-down callback runs after the disposal.
C15_DisposalReleasesTimers ==
    /\ cb.resetTimers <= 1
    /\ ~env.disposed => cb.bucketInterval
    /\ env.disposed =>
          /\ ~cb.bucketInterval
          /\ cb.resetTimers = 0
          /\ obs.last \notin {"rotate", "cooldown"}

(***************************************************************************)
(* C16                                                                     *)
(***************************************************************************)
\* C16: HalfOpen is entered only by the cool-down callback, and that
\* callback runs only while the breaker is Open: no call, no outcome of a
\* call and no open() or close() produces HalfOpen, and HalfOpen never
\* follows Closed.
C16_HalfOpenOnlyByCoolDown ==
    /\ (cb.state = HALF_OPEN /\ obs.before.state # HALF_OPEN) =>
          obs.last = "cooldown" /\ obs.before.state = OPEN
    /\ obs.last = "cooldown" =>
          obs.before.state = OPEN /\ cb.state = HALF_OPEN
    /\ obs.last = "none" => cb.state = CLOSED

\* C16, the case: the cool-down timer of a breaker opened by open(), no
\* failure counted, has just fired.
C16_Witness ==
    /\ obs.last = "cooldown" /\ obs.before.state = OPEN
    /\ cb.state = HALF_OPEN /\ cb.pendingClose
    /\ Counted.failures = 0 /\ Counted.isCircuitBreakerOpen = 1

(***************************************************************************)
(* C17                                                                     *)
(***************************************************************************)
\* C17: at most one cool-down timer is pending, this[RESET_TIMEOUT] refers
\* to it, and one is pending exactly when the breaker is Open: every
\* transition into Open arms one, none is left after a transition into
\* Closed or HalfOpen, so no cool-down callback finds a Closed breaker.
C17_OneTimerWhileOpen ==
    /\ cb.resetTimers <= 1
    /\ cb.resetTimers = 1 <=> cb.state = OPEN
    /\ cb.resetHandle <=> cb.resetTimers = 1
    /\ obs.last = "cooldown" => obs.before.state # CLOSED
    /\ (cb.state = OPEN /\ obs.before.state # OPEN) =>
          obs.before.resetTimers = 0 /\ Emitted("open")

\* C17, the case: close() has just closed an Open breaker and cleared its
\* pending cool-down timer.
C17_Witness ==
    /\ obs.last = "close()" /\ obs.before.state = OPEN
    /\ obs.before.resetTimers = 1
    /\ cb.state = CLOSED /\ cb.resetTimers = 0 /\ ~cb.resetHandle

Recorded(f) ==
    Cardinality({n \in 1..Len(cb.emitted) :
                    /\ cb.emitted[n].name \in DOMAIN CounterOf
                    /\ CounterOf[cb.emitted[n].name] = f})

\* C19: the window always holds BUCKETS buckets; a rotation puts a fresh
\* all-zero bucket at the head, moves every other bucket one place toward
\* the end unchanged and drops the oldest; any other callback leaves every
\* bucket but the head as it was and adds to each counter of the head
\* exactly 1 per event it recorded for that counter; no count is negative
\* or ever decremented.
C19_WindowShape ==
    /\ Len(cb.window) = BUCKETS
    /\ \A i \in 1..BUCKETS : \A f \in Counters : cb.window[i][f] >= 0
    /\ obs.last = "rotate" =>
          /\ cb.window[1] = bucket
          /\ \A f \in Counters : cb.window[1][f] = 0
          /\ \A i \in 2..BUCKETS : cb.window[i] = obs.before.window[i - 1]
    /\ obs.last # "rotate" =>
          /\ \A i \in 2..BUCKETS : cb.window[i] = obs.before.window[i]
          /\ \A f \in Counters :
                /\ cb.window[1][f] = obs.before.window[1][f] + Recorded(f)
                /\ cb.window[1][f] >= obs.before.window[1][f]

\* C19, the case: a timeout has just been recorded in a head bucket that
\* already counted a fire, the bucket behind it holding an earlier failure.
C19_Witness ==
    /\ obs.last = "failure" /\ Emitted("timeout")
    /\ obs.before.window[1].fires >= 1
    /\ obs.before.window[BUCKETS].failures >= 1
    /\ cb.window[BUCKETS] = obs.before.window[BUCKETS]
    /\ cb.window[1].timeouts = obs.before.window[1].timeouts + 1
    /\ cb.window[1].failures = obs.before.window[1].failures + 1

(***************************************************************************)
(* C20                                                                     *)
(***************************************************************************)
\* The notification that names a state, and how many notifications of a
\* state the last callback emitted.
NameOf(state) ==
    CASE state = OPEN -> "open" [] state = CLOSED -> "close"
      [] state = HALF_OPEN -> "halfOpen"
StateNotifications ==
    Cardinality({n \in 1..Len(cb.emitted) :
                    cb.emitted[n].name \in {"open", "close", "halfOpen"}})

\* C20: a callback that changes the state emits exactly one notification
\* of a state, the one naming the new state; a callback that leaves the
\* state as it was emits no open, close or halfOpen; the breaker starts
\* Closed and exactly one of closed, opened, halfOpen is true.
C20_OneNotificationPerTransition ==
    /\ cb.state # obs.before.state =>
          StateNotifications = 1 /\ Emitted(NameOf(cb.state))
    /\ cb.state = obs.before.state => StateNotifications = 0
    /\ obs.last = "none" => closed(cb)
    /\ Cardinality({g \in {"closed", "opened", "halfOpen"} :
                       \/ g = "closed" /\ closed(cb)
                       \/ g = "opened" /\ opened(cb)
                       \/ g = "halfOpen" /\ halfOpen(cb)}) = 1

\* C20, the case: open() has just opened a HalfOpen breaker.
C20_Witness ==
    /\ obs.last = "open()" /\ obs.before.state = HALF_OPEN
    /\ opened(cb) /\ ~closed(cb) /\ ~halfOpen(cb)
    /\ EmittedNames = <<"open">>

(***************************************************************************)
(* C21                                                                     *)
(***************************************************************************)
\* How many outcomes of calls the last callback emitted.
Outcomes ==
    Cardinality({n \in 1..Len(cb.emitted) :
                    cb.emitted[n].name \in {"success", "failure"}})

\* C21: the handling of one outcome is one step on the breaker as it found
\* it: one outcome is emitted, every increment lands in the head bucket the
\* callback found (no rotation in between: the other buckets are as they
\* were), the state it ends in is decided from the state it found (no
\* cool-down in between) and from a window that already counts this
\* failure; a timeout and its failure are counted in the same head bucket.
C21_OutcomeHandledAtOnce ==
    (obs.last \in {"failure", "success"}) =>
        /\ Outcomes = 1
        /\ \A i \in 2..BUCKETS : cb.window[i] = obs.before.window[i]
        /\ \A f \in Counters :
              Counted[f] = obs.before.stats[f] + Recorded(f)
        /\ Emitted("timeout") =>
              /\ obs.last = "failure"
              /\ cb.window[1].timeouts = obs.before.window[1].timeouts + 1
              /\ cb.window[1].failures = obs.before.window[1].failures + 1
        /\ obs.last = "failure" =>
              (cb.state = OPEN <=>
                  \/ obs.before.state \in {OPEN, HALF_OPEN}
                  \/ obs.before.stats.failures + 1 >= options.maxFailures)
        /\ obs.last = "success" =>
              cb.state = (IF obs.before.state = HALF_OPEN THEN CLOSED
                          ELSE obs.before.state)
        /\ cb.state # HALF_OPEN \/ obs.before.state = HALF_OPEN

\* C21, the case: a timeout has just been handled whose failure is the one
\* that reaches the threshold, the earlier failures counted in an older
\* bucket.
C21_Witness ==
    /\ obs.last = "failure" /\ Emitted("timeout")
    /\ obs.before.state = CLOSED /\ cb.state = OPEN
    /\ obs.before.window[1].failures = 0
    /\ obs.before.window[BUCKETS].failures = options.maxFailures - 1
    /\ options.maxFailures >= 2
    /\ cb.window[1].timeouts = 1 /\ cb.window[1].failures = 1

(***************************************************************************)
(* C22                                                                     *)
(***************************************************************************)
\* C22: no call and no outcome of a call changes the state of an Open
\* breaker: a call is rejected, and the success, failure or timeout of a
\* call admitted earlier only updates the counters: the breaker stays Open,
\* nothing is emitted about the state, the cool-down timer is neither
\* cleared nor armed again.  Open is left only by the cool-down callback
\* (to HalfOpen) or by close() (to Closed).
C22_OpenUntilCoolDownOrClose ==
    /\ (obs.before.state = OPEN /\ obs.last \notin {"cooldown", "close()"}) =>
          /\ cb.state = OPEN
          /\ StateNotifications = 0
          /\ cb.resetTimers = obs.before.resetTimers
          /\ cb.resetHandle = obs.before.resetHandle
    /\ (obs.before.state = OPEN /\ obs.last = "cooldown") => cb.state = HALF_OPEN
    /\ (obs.before.state = OPEN /\ obs.last = "close()") => cb.state = CLOSED
    /\ (obs.before.state = OPEN /\ obs.last = "success") =>
          Counted.successes = obs.before.stats.successes + 1
    /\ (obs.before.state = OPEN /\ obs.last = "failure") =>
          Counted.failures = obs.before.stats.failures + 1

\* C22, the case: a call admitted before the breaker opened has just
\* succeeded, the breaker Open.
C22_Witness ==
    /\ obs.last = "success" /\ obs.before.state = OPEN
    /\ cb.state = OPEN /\ cb.resetTimers = 1
    /\ EmittedNames = <<"success">>
    /\ \E i \in CallIds :
          /\ Succeeded(calls[i]) /\ calls[i].arrival = CLOSED
          /\ calls[i].pc = "resolved"

(***************************************************************************)
(* C23                                                                     *)
(***************************************************************************)
\* C23: in every bucket of the window, and so in stats, timeouts <=
\* failures: a timeout is counted together with a failure in the same
\* bucket.
C23_TimeoutsWithinFailures ==
    /\ \A i \in 1..Len(cb.window) :
          cb.window[i].timeouts <= cb.window[i].failures
    /\ Counted.timeouts <= Counted.failures

\* C23, the case: the window counts a timeout together with its failure in
\* an older bucket and a failure that was no timeout in the head.
C23_Witness ==
    /\ cb.window[BUCKETS].timeouts >= 1
    /\ cb.window[BUCKETS].timeouts = cb.window[BUCKETS].failures
    /\ cb.window[1].timeouts = 0 /\ cb.window[1].failures >= 1
    /\ Counted.timeouts < Counted.failures

(***************************************************************************)
(* C24                                                                     *)
(***************************************************************************)
\* What keeps a call from pending for ever, state by state: a call that
\* found the breaker Open is rejected at once; with a timeout configured a
\* pending call has its timeout timer pending; with the timeout disabled a
\* pending call has no timer, its operation is still running, and nothing
\* but that operation's completion can settle it.
SettledOrTimed ==
    \A i \in CallIds :
        LET c == calls[i] IN
        /\ c.arrival = OPEN => c.pc = "rejected"
        /\ (options.timeout.on /\ c.pc = "pending") => c.timer
        /\ (~options.timeout.on /\ c.pc = "pending") =>
              /\ ~c.timer /\ c.op = "running"
              /\ ~ENABLED TimeoutFires(i)

\* C24: with a timeout configured every call settles: a pending call does
\* not stay pending, also when its operation never completes (it is then
\* rejected with ETIMEDOUT); with the timeout disabled only the operation's
\* completion settles a pending call.
C24_EveryCallSettles ==
    /\ []SettledOrTimed
    /\ \A i \in CallIds :
          (options.timeout.on /\ calls[i].pc = "pending")
              ~> (calls[i].pc # "pending")

\* C24, the case: a call has been rejected with ETIMEDOUT and its operation
\* has still not completed a rotation later.
C24_Witness ==
    /\ options.timeout.on /\ obs.last = "rotate"
    /\ \E i \in CallIds :
          /\ calls[i].pc = "rejected" /\ calls[i].result = ETIMEDOUT
          /\ calls[i].op = "running" /\ ~calls[i].timer

====
